---------------------------- MODULE Spec2Model ----------------------------
(***************************************************************************)
(* Model of c-cpp/17_skiplist/skiplist_tr.hpp: a skiplist keyed by the     *)
(* hash of its values.  cont_ is the std::list of nodes, modelled as the   *)
(* sequence of node identities in list order; a list iterator is a node    *)
(* identity, and cont_.end() is the identity End.  node maps an identity   *)
(* to the InternalNode it names (key, values, forwards).                   *)
(*                                                                         *)
(* The header declares no insert: the range constructor calls insert on    *)
(* each element (line 88) but the file defines none.  insert is therefore  *)
(* modelled from section 4.4 of the specification, with the descent of     *)
(* section 4.2 taken by its stated result (greatest key <= target).        *)
(***************************************************************************)
EXTENDS Integers, Sequences, FiniteSets, Bags, TLC

(* ------------------------------ bounds -------------------------------- *)
\* largest max_lv handed to the constructor
MaxLevel == 2
\* number of insert calls explored
MaxInserts == 3
\* std::numeric_limits<hash_type>::max() of the modelled hash_type
KeyMax == 4

(* ----------------------------- constants ------------------------------ *)
\* std::numeric_limits<hash_type>::min() of the unsigned hash_type
KeyMin == 0
\* cont_.end(), the past-the-end iterator; node identities start at 1
End == 0
\* identities of the two nodes init_internally creates, in creation order
TailId == 1
HeadId == 2

NumValues == KeyMax + 3
Values == 0 .. (NumValues - 1)
Keys == KeyMin .. KeyMax
\* probabilities in percent: below 0, 0, inside (0,1), 1, above 1
Probs == {0 - 50, 0, 50, 100, 150}

\* Hash()(target): a many-to-one map of the values onto the whole key domain
hasher(v) == v % (KeyMax + 1)
\* std::less<hash_type>
compare(a, b) == a < b

VARIABLES pc, max_lv_, prob_, cont_, node, inserted, last

vars == <<pc, max_lv_, prob_, cont_, node, inserted, last>>

NoCall == [op |-> "none", arg |-> 0, pred |-> End, ret |-> End, visited |-> <<>>]

(* ------------------------- InternalNode ------------------------------- *)
InternalNode(k) == [key |-> k, values |-> EmptyBag, forwards |-> <<>>]

\* std::vector::resize on an empty vector: n value-initialised iterators
resize(n) == [i \in 1 .. n |-> End]

\* std::fill over a whole vector
fill(vec, x) == [i \in 1 .. Len(vec) |-> x]

\* std::list::insert(pos, x): x goes before the element at position pos
ListInsert(list, pos, x) ==
    SubSeq(list, 1, pos - 1) \o <<x>> \o SubSeq(list, pos, Len(list))

\* position of iterator it in list order; Len + 1 for end()
Pos(list, it) ==
    IF it = End THEN Len(list) + 1
    ELSE CHOOSE p \in 1 .. Len(list) : list[p] = it

\* std::next(it)
StdNext(list, it) ==
    IF Pos(list, it) >= Len(list) THEN End ELSE list[Pos(list, it) + 1]

\* std::multiset<Value>::insert keeps an element only once here
values_insert_once(values, v) ==
    IF BagIn(v, values) THEN values ELSE values (+) SetToBag({v})

\* std::multiset<Value>::insert: one more occurrence of v
values_insert(values, v) == values (+) SetToBag({v})

(* ------------------------- random_level ------------------------------- *)
\* the values binomial_distribution(max_level - 1, prob) can return; the
\* trial count is max_level - 1 in the unsigned IntType
RandomLevel(max_level, prob) ==
    LET t == (max_level - 1) % (KeyMax + 1)
    IN  IF prob <= 0 THEN {0}
        ELSE IF prob >= 100 THEN {t}
        ELSE 0 .. t

(* ------------------------ init_internally ----------------------------- *)
\* head's forwards filled with begin() instead of std::next(begin())
init_internally_headlinks(m) ==
    LET tail == [InternalNode(KeyMax) EXCEPT !.forwards = fill(resize(m), End)]
        c1   == ListInsert(<<>>, 1, TailId)
        head == [InternalNode(KeyMin) EXCEPT !.forwards = resize(m)]
        c2   == ListInsert(c1, 1, HeadId)
        n2   == <<tail, head>>
    IN  [cont |-> c2,
         node |-> [n2 EXCEPT ![c2[1]].forwards = fill(@, c2[1])]]

\* head inserted at end() instead of begin()
init_internally_order(m) ==
    LET tail == [InternalNode(KeyMax) EXCEPT !.forwards = fill(resize(m), End)]
        c1   == ListInsert(<<>>, 1, TailId)
        head == [InternalNode(KeyMin) EXCEPT !.forwards = resize(m)]
        c2   == ListInsert(c1, Len(c1) + 1, HeadId)
        n2   == <<tail, head>>
    IN  [cont |-> c2,
         node |-> [n2 EXCEPT ![HeadId].forwards = fill(@, TailId)]]

\* tail (identity 1) is inserted at begin(), then head (identity 2) before
\* it; head's forwards are filled with std::next(begin()), the tail
init_internally(m) ==
    LET tail == [InternalNode(KeyMax) EXCEPT !.forwards = fill(resize(m), End)]
        c1   == ListInsert(<<>>, 1, TailId)
        head == [InternalNode(KeyMin) EXCEPT !.forwards = resize(m)]
        c2   == ListInsert(c1, 1, HeadId)
        n2   == <<tail, head>>
    IN  [cont |-> c2,
         node |-> [n2 EXCEPT ![c2[1]].forwards = fill(@, StdNext(c2, c2[1]))]]

\* the LIAM_UT_DEBUG_ assertions at the end of init_internally
init_asserts(c, n) ==
    /\ n[c[1]].key = KeyMin
    /\ \A i \in 1 .. Len(n[c[1]].forwards) :
          /\ n[c[1]].forwards[i] # End
          /\ n[n[c[1]].forwards[i]].key = KeyMax
    /\ \A i \in 1 .. Len(n[StdNext(c, c[1])].forwards) :
          n[StdNext(c, c[1])].forwards[i] = End

(* --------------------------- find_helper ------------------------------ *)
\* the inner for loop at level focus (focus counted from 0)
RECURSIVE Advance(_, _, _)
Advance(iter, focus, key) ==
    LET forward == node[iter].forwards[focus + 1]
    IN  IF forward # End /\ ~compare(node[forward].key, key)
        THEN Advance(forward, focus, key)
        ELSE iter

\* the outer for loop from iteration i up to (not including) iteration n,
\* focus = max_lv_ - 1 - i
RECURSIVE Descend(_, _, _, _)
Descend(iter, i, n, key) ==
    IF i = n THEN iter
    ELSE Descend(Advance(iter, max_lv_ - 1 - i, key), i + 1, n, key)

find_helper(key) == Descend(cont_[1], 0, max_lv_, key)

find(target) ==
    LET key  == hasher(target)
        iter == find_helper(key)
    IN  IF node[iter].key = key THEN iter ELSE End

(* ------------------------ size / iteration ---------------------------- *)
\* cont_.size() - 1: only one sentinel discounted
size_off == Len(cont_) - 1

\* cont_.size() - 2
size == Len(cont_) - 2

empty == size = 0

begin == cont_[1]

end == End

\* for (it = begin(); it != end(); ++it): the nodes visited
RECURSIVE Walk(_)
Walk(it) == IF it = end THEN <<>> ELSE <<it>> \o Walk(StdNext(cont_, it))

(* ------------------------- construction ------------------------------ *)
\* the member initialisers and init_internally: the object the constructor
\* leaves behind
Constructed(m, p) ==
    /\ pc' = "ready"
    /\ max_lv_' = m
    /\ prob_' = p
    /\ cont_' = init_internally(m).cont
    /\ node' = init_internally(m).node
    /\ inserted' = EmptyBag
    /\ last' = NoCall

\* skiplist(max_lv, prob).  No argument is checked.  A prob outside [0, 1]
\* breaks the precondition of std::binomial_distribution: the build either
\* carries on or stops in the library's assertion.
Ctor(m, p) ==
    /\ pc = "raw"
    /\ \/ Constructed(m, p)
       \/ /\ (p < 0 \/ p > 100)
          /\ pc' = "aborted"
          /\ max_lv_' = m
          /\ prob_' = p
          /\ UNCHANGED <<cont_, node, inserted, last>>

(* ------------------------------ insert -------------------------------- *)
TailNode == cont_[Len(cont_)]

\* section 4.2: follow forwards[L] while the node reached is not the tail or
\* end marker and its key does not exceed the target
RECURSIVE locate_advance(_, _, _)
locate_advance(iter, L, key) ==
    LET forward == node[iter].forwards[L]
    IN  IF forward # End /\ forward # TailNode /\ node[forward].key <= key
        THEN locate_advance(forward, L, key)
        ELSE iter

\* the node the descent stops at on each level, base level first
RECURSIVE locate_descend(_, _, _)
locate_descend(iter, L, key) ==
    IF L = 0 THEN <<>>
    ELSE LET p == locate_advance(iter, L, key)
         IN  locate_descend(p, L - 1, key) \o <<p>>

locate_path(key) == locate_descend(cont_[1], max_lv_, key)

\* section 4.4: the node sequence and nodes after insert(value) with a
\* freshly drawn level count lvl
insert(value, lvl) ==
    LET key    == hasher(value)
        update == locate_path(key)
        pred   == update[1]
        id     == Len(node) + 1
        fresh  == [key      |-> key,
                   values   |-> values_insert(EmptyBag, value),
                   forwards |-> [i \in 1 .. max_lv_ |->
                                   IF i <= lvl THEN node[update[i]].forwards[i]
                                   ELSE TailNode]]
        relink == [j \in 1 .. Len(node) |->
                     [node[j] EXCEPT !.forwards =
                        [i \in 1 .. max_lv_ |->
                           IF i <= lvl /\ update[i] = j THEN id ELSE @[i]]]]
    IN  IF node[pred].key = key
        THEN [cont |-> cont_,
              node |-> [node EXCEPT ![pred].values = values_insert(@, value)]]
        ELSE [cont |-> ListInsert(cont_, Pos(cont_, pred) + 1, id),
              node |-> Append(relink, fresh)]

\* values whose hash lies strictly between the sentinel keys
Insertable == {v \in Values : KeyMin < hasher(v) /\ hasher(v) < KeyMax}

Insert(v, g) ==
    /\ pc = "ready"
    /\ BagCardinality(inserted) < MaxInserts
    /\ cont_' = insert(v, 1 + g).cont
    /\ node' = insert(v, 1 + g).node
    /\ inserted' = inserted (+) SetToBag({v})
    /\ last' = [NoCall EXCEPT !.op = "insert", !.arg = v]
    /\ UNCHANGED <<pc, max_lv_, prob_>>

(* ------------------------------- find --------------------------------- *)
Find(v) ==
    /\ pc = "ready"
    /\ last' = [NoCall EXCEPT !.op = "find", !.arg = v,
                              !.pred = find_helper(hasher(v)),
                              !.ret = find(v)]
    /\ UNCHANGED <<pc, max_lv_, prob_, cont_, node, inserted>>

(* ----------------------------- iteration ------------------------------ *)
Traverse ==
    /\ pc = "ready"
    /\ last' = [NoCall EXCEPT !.op = "traverse", !.visited = Walk(begin)]
    /\ UNCHANGED <<pc, max_lv_, prob_, cont_, node, inserted>>

(* -------------------------- specifications ---------------------------- *)
\* default probability of both constructors, in percent
DefaultProb == 50

\* a skiplist constructed with arguments that meet the documented contract
Init ==
    \E m \in 1 .. MaxLevel :
        /\ pc = "ready"
        /\ max_lv_ = m
        /\ prob_ = DefaultProb
        /\ cont_ = init_internally(m).cont
        /\ node = init_internally(m).node
        /\ inserted = EmptyBag
        /\ last = NoCall

Next ==
    \/ \E v \in Insertable : \E g \in RandomLevel(max_lv_, prob_) : Insert(v, g)
    \/ \E v \in Values : Find(v)
    \/ Traverse

Spec == Init /\ [][Next]_vars

\* storage before any constructor has run
InitCtor ==
    /\ pc = "raw"
    /\ max_lv_ = 0
    /\ prob_ = 0
    /\ cont_ = <<>>
    /\ node = <<>>
    /\ inserted = EmptyBag
    /\ last = NoCall

NextCtor ==
    \/ \E m \in 0 .. MaxLevel : \E p \in Probs : Ctor(m, p)
    \/ \E v \in Values : Find(v)
    \/ Traverse

SpecCtor == InitCtor /\ [][NextCtor]_vars

(* ------------------------ vocabulary of the claims -------------------- *)
NodeIds == 1 .. Len(node)

Interior == NodeIds \ {HeadId, TailId}

InsertedKeys == {hasher(v) : v \in BagToSet(inserted)}

\* strictly increasing keys along the node sequence, and every forward link
\* points to a node further right or to end()
WellFormed ==
    /\ \A p \in 1 .. (Len(cont_) - 1) : node[cont_[p]].key < node[cont_[p + 1]].key
    /\ \A n \in NodeIds : \A L \in 1 .. max_lv_ :
          \/ node[n].forwards[L] = End
          \/ Pos(cont_, node[n].forwards[L]) > Pos(cont_, n)

\* the node find_helper stands on when the loop of level focus ends
LevelEnd(key, focus) == Descend(cont_[1], 0, max_lv_ - focus, key)

(* ------------------------------- claims ------------------------------- *)
\* C1: after inserts only, find(v) of every inserted value v returns an
\* interior node whose key is hash(v) and whose values contain v.
C1_SearchCorrect ==
    (pc = "ready" /\ last.op = "find" /\ BagIn(last.arg, inserted))
        => /\ last.ret \in Interior
           /\ node[last.ret].key = hasher(last.arg)
           /\ BagIn(last.arg, node[last.ret].values)

\* C2: find(v) returns end() whenever no interior node holds the key hash(v).
C2_NotFoundIsEnd ==
    (pc = "ready" /\ last.op = "find"
        /\ \A n \in Interior : node[n].key # hasher(last.arg))
        => last.ret = End

\* C3: find never returns the head node or the tail node, whatever the hash.
C3_SentinelsNeverMatched ==
    (pc = "ready" /\ last.op = "find") => last.ret \notin {HeadId, TailId}

C6_CtorRejectsBadArguments ==
    pc = "ready" => (max_lv_ >= 1 /\ 0 < prob_ /\ prob_ < 100)

\* an insert step on a key that already has a node: one more occurrence of
\* the value in that node, same node sequence, same forwards, same size()
C7_InsertExistingStep ==
    \A v \in Values :
        (last'.op = "insert" /\ last'.arg = v /\ inserted' # inserted
            /\ \E n \in NodeIds : node[n].key = hasher(v))
        => /\ cont_' = cont_
           /\ size' = size
           /\ \E n \in NodeIds :
                 /\ node[n].key = hasher(v)
                 /\ node' = [node EXCEPT ![n].values = @ (+) SetToBag({v})]

\* every inserted value sits in exactly one node, as often as it was inserted
C7_KTimes ==
    \A v \in BagToSet(inserted) :
        /\ Cardinality({n \in NodeIds : BagIn(v, node[n].values)}) = 1
        /\ \A n \in NodeIds :
              BagIn(v, node[n].values)
                  => CopiesIn(v, node[n].values) = CopiesIn(v, inserted)

C8_IterationIsInterior ==
    (pc = "ready" /\ last.op = "traverse")
        => /\ last.visited = SubSeq(cont_, 2, Len(cont_) - 1)
           /\ \A i \in 1 .. Len(last.visited) :
                 last.visited[i] \notin {HeadId, TailId}
           /\ (inserted = EmptyBag) => last.visited = <<>>

\* C9: on a well-formed skiplist find_helper(key) returns the node with the
\* greatest key <= key (head if there is none), and when each level's loop
\* ends the current node's key is <= key and its forward on that level is
\* end(), the tail, or a node with a key > key.
C9_DescentPostcondition ==
    (pc = "ready" /\ last.op = "find" /\ WellFormed)
        => LET key == hasher(last.arg)
           IN  /\ node[last.pred].key <= key
               /\ \A n \in NodeIds :
                     node[n].key <= key => node[n].key <= node[last.pred].key
               /\ \A focus \in 0 .. (max_lv_ - 1) :
                     LET it  == LevelEnd(key, focus)
                         fwd == node[it].forwards[focus + 1]
                     IN  /\ node[it].key <= key
                         /\ \/ fwd = End
                            \/ fwd = TailId
                            \/ node[fwd].key > key

\* C10: right after construction with max_level >= 1 the node sequence is
\* head, tail with the extremal keys, head's max_level forwards all name
\* the tail, tail's max_level forwards are all end(), and the debug
\* assertions of init_internally hold.
C10_SentinelWiring ==
    (pc = "ready" /\ max_lv_ >= 1)
        => /\ cont_ = <<HeadId, TailId>>
           /\ node[HeadId].key = KeyMin
           /\ node[TailId].key = KeyMax
           /\ node[HeadId].forwards = [i \in 1 .. max_lv_ |-> TailId]
           /\ node[TailId].forwards = [i \in 1 .. max_lv_ |-> End]
           /\ init_asserts(cont_, node)

C10_Witness ==
    /\ pc = "ready"
    /\ max_lv_ = MaxLevel
    /\ last.op = "none"

=============================================================================
